---- MODULE Spec2Model ----
(***************************************************************************)
(* Model of pkg/cloud/azure/actuators/machine/reconciler.go: the machine   *)
(* Reconciler of cluster-api-provider-azure.  Every lifecycle operation    *)
(* (Create, Update, Exists, Delete) is a sequence of steps, one step per   *)
(* external call; the code between two external calls belongs to the step  *)
(* of the call that precedes it.  Invocations for one machine are          *)
(* serialized by the caller, invocations for distinct machines interleave. *)
(*                                                                         *)
(* External collaborators follow their interface contract: a Get answers   *)
(* (payload, nil) when the resource is there, (nil, err) when it is not    *)
(* found and (payload, err) on any other failure; a VM that is found is a  *)
(* compute.VirtualMachine with a non-nil ID and ProvisioningState.         *)
(***************************************************************************)
EXTENDS Integers, Sequences, FiniteSets, TLC

\* ------------------------------------------------------------------ bounds
MaxOps == 2          \* lifecycle invocations started in one behaviour
MaxEnv == 1          \* changes made by the provider or the user in one behaviour
MaxPages == 2        \* pages of the node inventory
MaxFail == 1         \* external calls that fail in one behaviour

\* --------------------------------------------------------------- constants
Machines == {"m1", "m2"}
\* the machines whose scope a Reconciler of this specification is given; the
\* resources of the others change under other hands
Scoped == {"m1"}
Node == "node"
ControlPlane == "controlplane"
Roles == {Node, ControlPlane, "other"}
VMStateSucceeded == "Succeeded"
VMStateUpdating == "Updating"
VMStates == {"Creating", VMStateUpdating, VMStateSucceeded, "Failed", "Deleting"}
Sizes == {"small", "large"}

\* a nil *string, a nil *VMState, a nil *ObjectReference
Nil == <<"<nil>">>
NilState == "<nil>"
NilRef == "<nil>"

\* strings that are searched or concatenated are sequences of characters
IdOf(m) == IF m = "m1" THEN <<"v", "1">> ELSE <<"v", "2">>

\* the value vm.ID of the VM that backs machine m
AbsentVM == [exists |-> FALSE, ID |-> Nil, ProvisioningState |-> NilState, VMSize |-> "small"]
AbsentExt == [exists |-> FALSE, token |-> ""]

\* nodes of the inventory: name and Spec.ProviderID
NodeOf(m) == [Name |-> "node-" \o m, ProviderID |-> <<"azure:///">> \o IdOf(m)]
StrayNode == [Name |-> "stray", ProviderID |-> <<"azure:///", "v", "9">>]
LongNode == [Name |-> "node-v10", ProviderID |-> <<"azure:///", "v", "1", "0">>]
PageSet == { <<StrayNode>>, <<LongNode, NodeOf("m1")>> }
RECURSIVE SeqsUpTo(_, _)
SeqsUpTo(S, n) ==
  IF n = 0 THEN { <<>> }
  ELSE LET shorter == SeqsUpTo(S, n - 1)
       IN  shorter \cup { Append(s, x) : s \in shorter, x \in S }
Inventories == { ps \in SeqsUpTo(PageSet, MaxPages) : Len(ps) >= 1 }

\* the machine lists the registry can answer: every order of every subset
Registries == { <<>>, <<"m1">>, <<"m2">>, <<"m1", "m2">>, <<"m2", "m1">> }

VARIABLES
  role,            \* Machine.ObjectMeta.Labels["set"] of every machine
  registry,        \* the Items of MachineClient.List, in list order
  hasCreds,        \* scope.ClusterConfig /= nil
  nodePages,       \* the node inventory, page by page, as the last resolution met it
  vmSize,          \* scope.MachineConfig.VMSize
  nic, vm, ext,    \* provider state: network interface, VM, startup extension
  VMID, VMState,   \* scope.MachineStatus
  NodeRef,         \* scope.Machine.Status.NodeRef
  ProviderID,      \* scope.Machine.Spec.ProviderID
  Annotations,     \* scope.Machine.Annotations["cluster-api-provider-azure"] = "true"
  pc, op,          \* position of the in-flight invocation, and which operation it is
  calls,           \* external calls of the current (or last) invocation, with outcome
  result,          \* what the last invocation returned
  isJoin,          \* outcome of isNodeJoin in this invocation
  bootstrapToken,  \* checkControlPlaneMachines' result
  peer,            \* cm of isNodeJoin's loop
  vmGot,           \* the payload of the VM Get of this invocation
  page,            \* listOpt.Continue, as the number of the page it names
  refResult,       \* outcome of getNodeReference in this invocation
  idem,            \* history: consecutive undisturbed successful Creates
  ops, envs, fails \* counters of the bounds

envVars == <<role, registry, hasCreds, nodePages>>
cloudVars == <<nic, vm, ext>>
scopeVars == <<VMID, VMState, NodeRef, ProviderID, Annotations>>
joinVars == <<isJoin, bootstrapToken, peer>>
existsVars == <<vmGot, page, refResult>>
vars == <<role, registry, hasCreds, nodePages, vmSize, nic, vm, ext, VMID, VMState,
          NodeRef, ProviderID, Annotations, pc, op, calls, result, isJoin,
          bootstrapToken, peer, vmGot, page, refResult, idem, ops, envs, fails>>

NoResult == [err |-> "", exists |-> FALSE]
Ok == [err |-> "", exists |-> FALSE]
Err(e) == [err |-> e, exists |-> FALSE]
Ready(b) == [err |-> "", exists |-> b]
NoIdem == [n |-> 0, clean |-> FALSE, first |-> <<>>, second |-> <<>>]

Init ==
  /\ role \in [Machines -> Roles]
  /\ \A p \in Machines \ Scoped : role[p] # "other"
  /\ registry \in Registries
  /\ hasCreds \in BOOLEAN
  /\ nodePages = << <<>> >>
  /\ vmSize = [m \in Machines |-> "small"]
  /\ nic = [m \in Machines |-> FALSE]
  /\ vm = [m \in Machines |-> AbsentVM]
  /\ ext = [m \in Machines |-> AbsentExt]
  /\ VMID = [m \in Machines |-> Nil]
  /\ VMState = [m \in Machines |-> NilState]
  /\ NodeRef = [m \in Machines |-> NilRef]
  /\ ProviderID = [m \in Machines |-> Nil]
  /\ Annotations = [m \in Machines |-> FALSE]
  /\ pc = [m \in Machines |-> "idle"]
  /\ op = [m \in Machines |-> "none"]
  /\ calls = [m \in Machines |-> <<>>]
  /\ result = [m \in Machines |-> NoResult]
  /\ isJoin = [m \in Machines |-> "undecided"]
  /\ bootstrapToken = [m \in Machines |-> ""]
  /\ peer = [m \in Machines |-> m]
  /\ vmGot = [m \in Machines |-> AbsentVM]
  /\ page = [m \in Machines |-> 0]
  /\ refResult = [m \in Machines |-> "none"]
  /\ idem = [m \in Machines |-> NoIdem]
  /\ ops = 0
  /\ envs = 0
  /\ fails = 0

\* ----------------------------------------------------------------- helpers
\* a call succeeds or fails; at most MaxFail calls of a behaviour fail
Outcomes == IF fails < MaxFail THEN {"ok", "err"} ELSE {"ok"}

Charge(failed) == fails' = IF failed THEN fails + 1 ELSE fails

\* the answer of a Get: the resource's presence, unless the call fails
GetOutcome(present, o) == IF o = "err" THEN "err" ELSE IF present THEN "ok" ELSE "notfound"

Log(m, c, o) == calls' = [calls EXCEPT ![m] = Append(@, <<c, o>>)]

Goto(m, l) == pc' = [pc EXCEPT ![m] = l]

Return(m, r) ==
  /\ pc' = [pc EXCEPT ![m] = "idle"]
  /\ result' = [result EXCEPT ![m] = r]

Start(m, o, l) ==
  /\ pc[m] = "idle"
  /\ ops < MaxOps
  /\ ops' = ops + 1
  /\ pc' = [pc EXCEPT ![m] = l]
  /\ op' = [op EXCEPT ![m] = o]
  /\ calls' = [calls EXCEPT ![m] = <<>>]
  /\ result' = [result EXCEPT ![m] = NoResult]
  /\ isJoin' = [isJoin EXCEPT ![m] = "undecided"]
  /\ bootstrapToken' = [bootstrapToken EXCEPT ![m] = ""]
  /\ peer' = [peer EXCEPT ![m] = m]
  /\ vmGot' = [vmGot EXCEPT ![m] = AbsentVM]
  /\ page' = [page EXCEPT ![m] = 0]
  /\ refResult' = [refResult EXCEPT ![m] = "none"]
  /\ UNCHANGED <<envVars, vmSize, cloudVars, scopeVars, envs, fails>>

\* provider state of machine m
Snap(n, v, e, m) == <<n[m], v[m], e[m]>>

\* history kept for idempotence: a change of the provider state made by anyone
\* but machine m's own Create disturbs every other machine's run of Creates
Disturb(S) ==
  [x \in Machines |-> IF x \in S THEN [idem[x] EXCEPT !.n = 0, !.clean = FALSE] ELSE idem[x]]

Others(m) == Machines \ {m}

\* m's Create made a call: failed, or changed (or re-asserted) provider state
IdemCall(m, o) ==
  IF o = "ok"
    THEN idem' = (IF cloudVars' = cloudVars THEN idem ELSE Disturb(Others(m)))
    ELSE idem' = Disturb({m})

\* m's Create returns nil
IdemDone(h, snap) ==
  IF ~h.clean THEN [h EXCEPT !.n = 0]
  ELSE IF h.n = 0 THEN [h EXCEPT !.n = 1, !.first = snap]
  ELSE [h EXCEPT !.n = 2, !.first = (IF h.n = 1 THEN h.first ELSE h.second), !.second = snap]

\* ------------------------------------------------------------------ Create
StartCreate(m) ==
  /\ Start(m, "Create", "c_list")
  /\ idem' = [idem EXCEPT ![m].clean = TRUE]

IsControlPlaneMachine(cm) == role[cm] = ControlPlane

\* the last control-plane machine of the list instead of the first
LastControlPlane(items) ==
  LET found == { i \in 1..Len(items) : role[items[i]] = ControlPlane }
  IN  IF found = {} THEN 0 ELSE CHOOSE i \in found : \A j \in found : i >= j

\* the first machine of the list that the loop of isNodeJoin does not skip; 0 if none
FirstControlPlane(items) ==
  LET found == { i \in 1..Len(items) : IsControlPlaneMachine(items[i]) }
  IN  IF found = {} THEN 0 ELSE CHOOSE i \in found : \A j \in found : i <= j

\* checkControlPlaneMachines asking for a token whatever isNodeJoin answered
checkControlPlaneMachinesAlways(m, j) ==
  /\ isJoin' = [isJoin EXCEPT ![m] = IF j THEN "true" ELSE "false"]
  /\ IF ~hasCreds
       THEN Return(m, Err("no kubeconfig"))
       ELSE Goto(m, "c_token") /\ UNCHANGED result

\* checkControlPlaneMachines once isNodeJoin has answered (j, nil)
checkControlPlaneMachines(m, j) ==
  /\ isJoin' = [isJoin EXCEPT ![m] = IF j THEN "true" ELSE "false"]
  /\ IF j /\ ~hasCreds
       THEN Return(m, Err("no kubeconfig"))
       ELSE Goto(m, IF j THEN "c_token" ELSE "c_nic") /\ UNCHANGED result

\* isNodeJoin failed: checkControlPlaneMachines and Create wrap and return the error
isNodeJoinError(m, e) ==
  /\ isJoin' = [isJoin EXCEPT ![m] = "error"]
  /\ Return(m, Err(e))

\* the case that a switch on the label "set" takes
setCaseAsNode(set) == IF set = ControlPlane THEN ControlPlane ELSE Node

\* the Node case falling into the ControlPlane case
setCaseNodeProbes(set) == IF set \in {Node, ControlPlane} THEN ControlPlane ELSE "default"

setCase(set) == IF set \in {Node, ControlPlane} THEN set ELSE "default"

\* isNodeJoin from its first line to its first VM Get
isNodeJoin(m, o) ==
  /\ Log(m, "MachineList", o)
  /\ Charge(o = "err")
  /\ IF o = "err" THEN isNodeJoinError(m, "list machines") /\ UNCHANGED peer
     ELSE IF setCase(role[m]) = Node THEN checkControlPlaneMachines(m, TRUE) /\ UNCHANGED peer
     ELSE IF setCase(role[m]) = ControlPlane THEN
       LET i == FirstControlPlane(registry)
       IN  IF i = 0 THEN checkControlPlaneMachines(m, FALSE) /\ UNCHANGED peer
           ELSE /\ peer' = [peer EXCEPT ![m] = registry[i]]
                /\ Goto(m, "c_peervm")
                /\ UNCHANGED <<isJoin, result>>
     ELSE isNodeJoinError(m, "unknown set") /\ UNCHANGED peer

CreateList(m) ==
  /\ pc[m] = "c_list"
  /\ \E o \in Outcomes :
       /\ isNodeJoin(m, o)
       /\ idem' = (IF o = "ok" THEN idem ELSE Disturb({m}))
  /\ UNCHANGED <<envVars, vmSize, cloudVars, scopeVars, op, bootstrapToken, existsVars, ops, envs>>

\* isNodeJoin: virtualMachinesSvc.Get of the peer and the two tests on its answer
CreatePeerVMGet(m) ==
  /\ pc[m] = "c_peervm"
  /\ \E o \in Outcomes :
       LET got == GetOutcome(vm[peer[m]].exists, o)
       IN  /\ Log(m, "VMGet", got)
           /\ Charge(got = "err")
           /\ IF got = "notfound" THEN checkControlPlaneMachines(m, FALSE)
              ELSE IF got = "err" THEN isNodeJoinError(m, "verify machine")
              ELSE Goto(m, "c_peerext") /\ UNCHANGED <<isJoin, result>>
           /\ idem' = (IF got = "err" THEN Disturb({m}) ELSE idem)
  /\ UNCHANGED <<envVars, vmSize, cloudVars, scopeVars, op, bootstrapToken, peer, existsVars, ops, envs>>

\* the join decision after the extension Get answered got
peerExtJoins(got) == got # "notfound"

\* isNodeJoin: virtualMachinesExtSvc.Get of the peer; only err /= nil with a nil
\* payload is tested
CreatePeerExtGet(m) ==
  /\ pc[m] = "c_peerext"
  /\ \E o \in Outcomes :
       LET got == GetOutcome(ext[peer[m]].exists, o)
       IN  /\ Log(m, "ExtGet", got)
           /\ Charge(got = "err")
           /\ checkControlPlaneMachines(m, peerExtJoins(got))
           /\ idem' = (IF got = "err" THEN Disturb({m}) ELSE idem)
  /\ UNCHANGED <<envVars, vmSize, cloudVars, scopeVars, op, bootstrapToken, peer, existsVars, ops, envs>>

\* the test of err after CreateNewBootstrapToken
tokenErrIgnored(o) == FALSE

tokenErr(o) == o # "ok"

\* checkControlPlaneMachines: certificates.CreateNewBootstrapToken
CreateToken(m) ==
  /\ pc[m] = "c_token"
  /\ \E o \in Outcomes :
       /\ Log(m, "Token", o)
       /\ Charge(o = "err")
       /\ IF ~tokenErr(o)
            THEN /\ bootstrapToken' = [bootstrapToken EXCEPT ![m] = "token"]
                 /\ Goto(m, "c_nic")
                 /\ UNCHANGED result
            ELSE /\ Return(m, Err("bootstrap token"))
                 /\ UNCHANGED bootstrapToken
       /\ idem' = (IF o = "ok" THEN idem ELSE Disturb({m}))
  /\ UNCHANGED <<envVars, vmSize, cloudVars, scopeVars, op, isJoin, peer, existsVars, ops, envs>>

\* the test of err after networkInterfacesSvc.CreateOrUpdate
createNicErrIgnored(o) == FALSE

createNicErr(o) == o # "ok"

\* Create: the switch on the label and networkInterfacesSvc.CreateOrUpdate
CreateNIC(m) ==
  /\ pc[m] = "c_nic"
  /\ IF setCase(role[m]) = "default"
       THEN /\ Return(m, Err("unknown set"))
            /\ idem' = Disturb({m})
            /\ UNCHANGED <<calls, nic, fails>>
       ELSE \E o \in Outcomes :
              /\ Log(m, "NicCreate", o)
              /\ Charge(o = "err")
              /\ IF ~createNicErr(o)
                   THEN /\ nic' = [nic EXCEPT ![m] = IF o = "ok" THEN TRUE ELSE @]
                        /\ Goto(m, "c_vm")
                        /\ UNCHANGED result
                   ELSE /\ Return(m, Err("network interface"))
                        /\ UNCHANGED nic
              /\ UNCHANGED <<vm, ext>>
              /\ IdemCall(m, o)
  /\ UNCHANGED <<envVars, vmSize, vm, ext, scopeVars, op, joinVars, existsVars, ops, envs>>

\* what virtualMachinesSvc.CreateOrUpdate leaves behind for the spec of machine m
UpsertVM(old, m) ==
  [exists |-> TRUE, ID |-> IdOf(m),
   ProvisioningState |-> IF old.exists THEN old.ProvisioningState ELSE "Creating",
   VMSize |-> vmSize[m]]

\* Create going on after virtualMachinesSvc.CreateOrUpdate failed
createVMErrIgnored(o) == FALSE

\* the test of err after virtualMachinesSvc.CreateOrUpdate
createVMErr(o) == o # "ok"

\* Create: virtualMachinesSvc.CreateOrUpdate (a key that does not decode is ignored)
CreateVM(m) ==
  /\ pc[m] = "c_vm"
  /\ \E o \in Outcomes :
       /\ Log(m, "VMCreate", o)
       /\ Charge(o = "err")
       /\ IF ~createVMErr(o)
            THEN /\ vm' = [vm EXCEPT ![m] = IF o = "ok" THEN UpsertVM(@, m) ELSE @]
                 /\ Goto(m, "c_ext")
                 /\ UNCHANGED result
            ELSE /\ Return(m, Err("create machine"))
                 /\ UNCHANGED vm
       /\ UNCHANGED <<nic, ext>>
       /\ IdemCall(m, o)
  /\ UNCHANGED <<envVars, vmSize, scopeVars, op, joinVars, existsVars, ops, envs>>

\* the error of virtualMachinesExtSvc.CreateOrUpdate wrapped and returned
extResultReturned(o) == IF o = "ok" THEN Ok ELSE Err("create extension")

\* what Create returns after virtualMachinesExtSvc.CreateOrUpdate answered o
extResult(o) == Ok

\* Create: GetVMStartupScript, virtualMachinesExtSvc.CreateOrUpdate, the annotation
CreateExt(m) ==
  /\ pc[m] = "c_ext"
  /\ \/ \* the script does not render
        /\ fails < MaxFail
        /\ Charge(TRUE)
        /\ Return(m, Err("startup script"))
        /\ idem' = Disturb({m})
        /\ UNCHANGED <<calls, ext, Annotations>>
     \/ \E o \in Outcomes :
          /\ Log(m, "ExtCreate", o)
          /\ Charge(o = "err")
          /\ ext' = IF o = "ok"
                      THEN [ext EXCEPT ![m] = [exists |-> TRUE, token |-> bootstrapToken[m]]]
                      ELSE ext
          /\ Return(m, extResult(o))
          /\ Annotations' = IF extResult(o).err = ""
                              THEN [Annotations EXCEPT ![m] = TRUE] ELSE Annotations
          /\ LET h == IF o = "ok" THEN idem[m] ELSE [idem[m] EXCEPT !.clean = FALSE]
                 base == IF ext' = ext THEN idem ELSE Disturb(Others(m))
             IN  idem' = [base EXCEPT ![m] =
                            IF extResult(o).err = "" THEN IdemDone(h, Snap(nic, vm, ext', m))
                            ELSE [h EXCEPT !.n = 0]]
  /\ UNCHANGED <<envVars, vmSize, nic, vm, VMID, VMState, NodeRef, ProviderID, op,
                 joinVars, existsVars, ops, envs>>

\* ------------------------------------------------------------------ Update
StartUpdate(m) ==
  /\ Start(m, "Update", "u_get")
  /\ UNCHANGED idem

\* no field is compared
isMachineOutdatedNever(machineSpecSize, vmRec) == FALSE

\* an attempt to change immutable state: the VM size
isMachineOutdated(machineSpecSize, vmRec) == machineSpecSize # vmRec.VMSize

\* Update: virtualMachinesSvc.Get and the comparison
UpdateVMGet(m) ==
  /\ pc[m] = "u_get"
  /\ \E o \in Outcomes :
       LET got == GetOutcome(vm[m].exists, o)
       IN  /\ Log(m, "VMGet", got)
           /\ Charge(got = "err")
           /\ IF got # "ok" THEN Return(m, Err("get vm"))
              ELSE IF isMachineOutdated(vmSize[m], vm[m]) THEN Return(m, Err("immutable state"))
              ELSE Return(m, Ok)
           /\ vmGot' = [vmGot EXCEPT ![m] = IF got = "ok" THEN vm[m] ELSE @]
  /\ UNCHANGED <<envVars, vmSize, cloudVars, scopeVars, op, joinVars, page, refResult,
                 idem, ops, envs>>

\* ------------------------------------------------------------------ Delete
StartDelete(m) ==
  /\ Start(m, "Delete", "d_vm")
  /\ UNCHANGED idem

\* the test of err after virtualMachinesSvc.Delete
deleteVMErrIgnored(o) == FALSE

deleteVMErr(o) == o # "ok"

\* Delete: virtualMachinesSvc.Delete; the extension is a child resource of the VM
DeleteVM(m) ==
  /\ pc[m] = "d_vm"
  /\ \E o \in Outcomes :
       /\ Log(m, "VMDelete", o)
       /\ Charge(o = "err")
       /\ IF ~deleteVMErr(o)
            THEN /\ vm' = [vm EXCEPT ![m] = IF o = "ok" THEN AbsentVM ELSE @]
                 /\ ext' = [ext EXCEPT ![m] = IF o = "ok" THEN AbsentExt ELSE @]
                 /\ Goto(m, "d_nic")
                 /\ UNCHANGED result
            ELSE /\ Return(m, Err("delete machine"))
                 /\ UNCHANGED <<vm, ext>>
  /\ idem' = Disturb(Machines)
  /\ UNCHANGED <<envVars, vmSize, nic, scopeVars, op, joinVars, existsVars, ops, envs>>

\* Delete: networkInterfacesSvc.Delete
DeleteNIC(m) ==
  /\ pc[m] = "d_nic"
  /\ \E o \in Outcomes :
       /\ Log(m, "NicDelete", o)
       /\ Charge(o = "err")
       /\ IF o = "ok"
            THEN /\ nic' = [nic EXCEPT ![m] = FALSE]
                 /\ Return(m, Ok)
            ELSE /\ Return(m, Err("delete network interface"))
                 /\ UNCHANGED nic
  /\ idem' = Disturb(Machines)
  /\ UNCHANGED <<envVars, vmSize, vm, ext, scopeVars, op, joinVars, existsVars, ops, envs>>

\* ------------------------------------------------------------------ Exists
StartExists(m) ==
  /\ Start(m, "Exists", "e_vmget")
  /\ UNCHANGED idem

\* isVMExists: virtualMachinesSvc.Get and the tests on its answer
ExistsVMGet(m) ==
  /\ pc[m] = "e_vmget"
  /\ \E o \in Outcomes :
       LET got == GetOutcome(vm[m].exists, o)
       IN  /\ Log(m, "VMGet", got)
           /\ Charge(got = "err")
           /\ IF got = "notfound" THEN Return(m, Ready(FALSE)) /\ UNCHANGED vmGot
              ELSE IF got = "err" THEN Return(m, Err("get vm")) /\ UNCHANGED vmGot
              ELSE /\ vmGot' = [vmGot EXCEPT ![m] = vm[m]]
                   /\ Goto(m, "e_extget")
                   /\ UNCHANGED result
  /\ UNCHANGED <<envVars, vmSize, cloudVars, scopeVars, op, joinVars, page, refResult,
                 idem, ops, envs>>

\* strings.Contains(s, sub)
Contains(s, sub) ==
  \E i \in 0..(Len(s) - Len(sub)) : SubSeq(s, i + 1, i + Len(sub)) = sub

\* the last matching node of a page instead of the first
LastMatch(nodes, instanceID) ==
  LET found == { i \in 1..Len(nodes) : Contains(nodes[i].ProviderID, instanceID) }
  IN  IF found = {} THEN 0 ELSE CHOOSE i \in found : \A j \in found : i >= j

\* the first node of a page whose provider id contains instanceID; 0 if none
FirstMatch(nodes, instanceID) ==
  LET found == { i \in 1..Len(nodes) : Contains(nodes[i].ProviderID, instanceID) }
  IN  IF found = {} THEN 0 ELSE CHOOSE i \in found : \A j \in found : i <= j

\* fmt.Sprintf("azure:////%s", *VMID)
providerIDOf(id) == <<"azure:////">> \o id

\* every provisioning state lets Exists go on
vmStateReadyAlways(state) == TRUE

\* Exists may go on after isVMExists answered true
vmStateReady(state) == state \in {VMStateSucceeded, VMStateUpdating}

\* a provider id is synthesized on every Exists
noProviderIDAlways(p) == TRUE

\* the machine has no provider id
noProviderID(p) == p = Nil \/ p = <<>>

\* Exists returning the error of getNodeReference
nodeRefFailedFatal(e) == Err(e)

\* what Exists returns when getNodeReference failed with e
nodeRefFailed(e) == Ready(TRUE)

\* the provisioning state is kept once it is set
vmStateWrittenOnce(old, state) == IF old = NilState THEN state ELSE old

\* the value isVMExists stores in MachineStatus.VMState, which held old
vmStateWritten(old, state) == state

\* the node reference is looked up on every Exists
nodeRefNilAlways(r) == TRUE

\* the test of Machine.Status.NodeRef before getNodeReference
nodeRefNil(r) == r = NilRef

\* getNodeReference up to its first Nodes().List: "" when the list can be asked
getNodeReferencePre(id, creds, clientOk) ==
  IF id = Nil THEN "no instance id"
  ELSE IF ~creds THEN "no kubeconfig"
  ELSE IF ~clientOk THEN "corev1 client"
  ELSE ""

\* isVMExists from the extension Get on, and the rest of Exists up to the
\* first page of getNodeReference
ExistsExtGet(m) ==
  /\ pc[m] = "e_extget"
  /\ \E o \in Outcomes, clientOk \in { ok \in BOOLEAN : ok \/ fails < MaxFail },
        inv \in Inventories :
       LET got == GetOutcome(ext[m].exists, o)
           id == vmGot[m].ID
           state == vmGot[m].ProvisioningState
           pre == getNodeReferencePre(id, hasCreds, clientOk)
           reached == got = "ok" /\ vmStateReady(state) /\ nodeRefNil(NodeRef[m])
       IN  /\ Log(m, "ExtGet", got)
           /\ Charge(got = "err" \/ (reached /\ pre = "corev1 client"))
           /\ IF got = "notfound" THEN
                /\ Return(m, Ready(FALSE))
                /\ UNCHANGED <<VMID, VMState, ProviderID, page, refResult, nodePages>>
              ELSE IF got = "err" THEN
                /\ Return(m, Err("get vm extension"))
                /\ UNCHANGED <<VMID, VMState, ProviderID, page, refResult, nodePages>>
              ELSE
                /\ VMID' = [VMID EXCEPT ![m] = id]
                /\ VMState' = [VMState EXCEPT ![m] = vmStateWritten(@, state)]
                /\ IF ~vmStateReady(state) THEN
                     /\ Return(m, Ready(FALSE))
                     /\ UNCHANGED <<ProviderID, page, refResult, nodePages>>
                   ELSE
                     /\ ProviderID' = [ProviderID EXCEPT ![m] =
                                         IF noProviderID(@) THEN providerIDOf(id) ELSE @]
                     /\ IF ~nodeRefNil(NodeRef[m]) THEN
                          /\ Return(m, Ready(TRUE))
                          /\ UNCHANGED <<page, refResult, nodePages>>
                        ELSE IF pre # "" THEN
                          /\ Return(m, nodeRefFailed(pre))
                          /\ refResult' = [refResult EXCEPT ![m] = pre]
                          /\ UNCHANGED <<page, nodePages>>
                        ELSE
                          /\ Goto(m, "e_nodes")
                          /\ refResult' = [refResult EXCEPT ![m] = "listing"]
                          /\ page' = [page EXCEPT ![m] = 1]
                          /\ nodePages' = inv
                          /\ UNCHANGED result
  /\ UNCHANGED <<role, registry, hasCreds, vmSize, cloudVars, NodeRef, Annotations, op,
                 joinVars, vmGot, idem, ops, envs>>

\* getNodeReference: one Nodes().List and the scan of its page
ExistsNodeList(m) ==
  /\ pc[m] = "e_nodes"
  /\ \E o \in Outcomes :
       LET nodes == nodePages[page[m]]
           i == FirstMatch(nodes, VMID[m])
       IN  /\ Log(m, "NodeList", o)
           /\ Charge(o = "err")
           /\ IF o = "err" THEN
                /\ Return(m, nodeRefFailed("query nodes"))
                /\ refResult' = [refResult EXCEPT ![m] = "query nodes"]
                /\ UNCHANGED <<NodeRef, page>>
              ELSE IF i # 0 THEN
                /\ NodeRef' = [NodeRef EXCEPT ![m] = nodes[i].Name]
                /\ Return(m, Ready(TRUE))
                /\ refResult' = [refResult EXCEPT ![m] = "found"]
                /\ UNCHANGED page
              ELSE IF page[m] = Len(nodePages) THEN
                /\ Return(m, nodeRefFailed("no node found"))
                /\ refResult' = [refResult EXCEPT ![m] = "no node found"]
                /\ UNCHANGED <<NodeRef, page>>
              ELSE
                /\ page' = [page EXCEPT ![m] = @ + 1]
                /\ Goto(m, "e_nodes")
                /\ UNCHANGED <<NodeRef, result, refResult>>
  /\ UNCHANGED <<envVars, vmSize, cloudVars, VMID, VMState, ProviderID, Annotations, op,
                 joinVars, vmGot, idem, ops, envs>>

\* ------------------------------------------------------------- environment
\* the provisioning states a VM in state s moves to
NextStates(s) ==
  IF s = "Creating" THEN {VMStateSucceeded, "Failed"}
  ELSE IF s = VMStateSucceeded THEN {VMStateUpdating, "Deleting"}
  ELSE IF s = VMStateUpdating THEN {VMStateSucceeded, "Failed"}
  ELSE {}

\* the provider moves the VM of a reconciled machine to another provisioning
\* state (the state of a peer's VM is never read)
ProviderProgress(m) ==
  /\ envs < MaxEnv
  /\ m \in Scoped
  /\ vm[m].exists
  /\ \E s \in NextStates(vm[m].ProvisioningState) :
       vm' = [vm EXCEPT ![m].ProvisioningState = s]
  /\ envs' = envs + 1
  /\ idem' = Disturb(Machines)
  /\ UNCHANGED <<envVars, vmSize, nic, ext, scopeVars, pc, op, calls, result, joinVars,
                 existsVars, ops, fails>>

\* the resources of a machine that is reconciled elsewhere appear or go
PeerProvision(p) ==
  /\ envs < MaxEnv
  /\ p \notin Scoped
  /\ \E v \in BOOLEAN, e \in BOOLEAN :
       /\ e => v
       /\ <<v, e>> # <<vm[p].exists, ext[p].exists>>
       /\ nic' = [nic EXCEPT ![p] = v]
       /\ vm' = [vm EXCEPT ![p] = IF v THEN [UpsertVM(@, p) EXCEPT !.VMSize = vm[p].VMSize]
                                   ELSE AbsentVM]
       /\ ext' = [ext EXCEPT ![p] = IF e THEN [exists |-> TRUE, token |-> ""] ELSE AbsentExt]
  /\ envs' = envs + 1
  /\ idem' = Disturb(Machines)
  /\ UNCHANGED <<envVars, vmSize, scopeVars, pc, op, calls, result, joinVars,
                 existsVars, ops, fails>>

\* the user edits the VM size of an idle machine's spec
EditSpec(m) ==
  /\ envs < MaxEnv
  /\ pc[m] = "idle"
  /\ \E s \in Sizes \ {vmSize[m]} : vmSize' = [vmSize EXCEPT ![m] = s]
  /\ envs' = envs + 1
  /\ idem' = Disturb({m})
  /\ UNCHANGED <<envVars, cloudVars, scopeVars, pc, op, calls, result, joinVars,
                 existsVars, ops, fails>>

\* ----------------------------------------------------------- specification
Create(m) ==
  \/ StartCreate(m)
  \/ CreateList(m)
  \/ CreatePeerVMGet(m)
  \/ CreatePeerExtGet(m)
  \/ CreateToken(m)
  \/ CreateNIC(m)
  \/ CreateVM(m)
  \/ CreateExt(m)

Update(m) == StartUpdate(m) \/ UpdateVMGet(m)

Exists(m) == StartExists(m) \/ ExistsVMGet(m) \/ ExistsExtGet(m) \/ ExistsNodeList(m)

Delete(m) == StartDelete(m) \/ DeleteVM(m) \/ DeleteNIC(m)

Environment ==
  \E m \in Machines : ProviderProgress(m) \/ PeerProvision(m) \/ EditSpec(m)

Next ==
  \/ \E m \in Scoped : Create(m) \/ Update(m) \/ Exists(m) \/ Delete(m)
  \/ Environment

Spec == Init /\ [][Next]_vars

TypeOK ==
  /\ pc \in [Machines -> {"idle", "c_list", "c_peervm", "c_peerext", "c_token", "c_nic",
                          "c_vm", "c_ext", "u_get", "d_vm", "d_nic", "e_vmget",
                          "e_extget", "e_nodes"}]
  /\ ops \in 0..MaxOps
  /\ envs \in 0..MaxEnv

\* ------------------------------------------ getNodeReference on its own
\* no invocation has run yet
Quiescent ==
  /\ pc = [m \in Machines |-> "idle"]
  /\ op = [m \in Machines |-> "none"]
  /\ calls = [m \in Machines |-> <<>>]
  /\ result = [m \in Machines |-> NoResult]
  /\ isJoin = [m \in Machines |-> "undecided"]
  /\ bootstrapToken = [m \in Machines |-> ""]
  /\ peer = [m \in Machines |-> m]
  /\ vmGot = [m \in Machines |-> AbsentVM]
  /\ page = [m \in Machines |-> 0]
  /\ refResult = [m \in Machines |-> "none"]
  /\ idem = [m \in Machines |-> NoIdem]
  /\ ops = 0
  /\ envs = 0
  /\ fails = 0

\* the values of scope.MachineStatus.VMID that getNodeReference may be given
\* for machine m: nil, a pointer to "", a pointer to an identifier
InstanceIDs(m) == {Nil, <<>>, IdOf(m)}

\* the scopes getNodeReference is applied to
InitNodeRef ==
  /\ role = [m \in Machines |-> Node]
  /\ registry = <<"m1", "m2">>
  /\ hasCreds \in BOOLEAN
  /\ nodePages \in Inventories
  /\ vmSize = [m \in Machines |-> "small"]
  /\ nic = [m \in Machines |-> FALSE]
  /\ vm = [m \in Machines |-> AbsentVM]
  /\ ext = [m \in Machines |-> AbsentExt]
  /\ VMID \in { f \in [Machines -> UNION { InstanceIDs(m) : m \in Machines }] :
                  \A m \in Machines : f[m] \in InstanceIDs(m) }
  /\ VMState = [m \in Machines |-> NilState]
  /\ NodeRef = [m \in Machines |-> NilRef]
  /\ ProviderID = [m \in Machines |-> Nil]
  /\ Annotations = [m \in Machines |-> FALSE]
  /\ Quiescent

\* getNodeReference from its first line to its first Nodes().List
GetNodeReference(m) ==
  /\ pc[m] = "idle"
  /\ op[m] = "none"
  /\ \E clientOk \in { ok \in BOOLEAN : ok \/ fails < MaxFail } :
       LET pre == getNodeReferencePre(VMID[m], hasCreds, clientOk)
       IN  /\ Charge(pre = "corev1 client")
           /\ op' = [op EXCEPT ![m] = "getNodeReference"]
           /\ refResult' = [refResult EXCEPT ![m] = IF pre = "" THEN "listing" ELSE pre]
           /\ IF pre # ""
                THEN Return(m, Err(pre)) /\ UNCHANGED page
                ELSE /\ Goto(m, "e_nodes")
                     /\ page' = [page EXCEPT ![m] = 1]
                     /\ UNCHANGED result
  /\ UNCHANGED <<envVars, vmSize, cloudVars, scopeVars, calls, joinVars, vmGot, idem,
                 ops, envs>>

NextNodeRef == \E m \in Machines : GetNodeReference(m) \/ ExistsNodeList(m)

SpecNodeRef == InitNodeRef /\ [][NextNodeRef]_vars

\* ------------------------------------------- a machine already provisioned
\* the provider ids a machine object may carry before its first Exists
GivenProviderIDs == {Nil, <<>>, <<"azure:///", "given">>}

\* the state that a Create of the first control-plane machine m1 that returned
\* nil leaves behind, the VM created or already running, before the first Exists
InitProvisioned ==
  /\ role = [m \in Machines |-> ControlPlane]
  /\ registry = <<"m2", "m1">>
  /\ hasCreds = TRUE
  /\ nodePages = << <<>> >>
  /\ vmSize = [m \in Machines |-> "small"]
  /\ nic = [m \in Machines |-> m \in Scoped]
  /\ \E s \in {"Creating", VMStateSucceeded} :
       vm = [m \in Machines |->
               IF m \in Scoped
                 THEN [exists |-> TRUE, ID |-> IdOf(m), ProvisioningState |-> s,
                       VMSize |-> "small"]
                 ELSE AbsentVM]
  /\ ext = [m \in Machines |->
              IF m \in Scoped
                THEN [exists |-> TRUE, token |-> ""]
                ELSE AbsentExt]
  /\ VMID = [m \in Machines |-> Nil]
  /\ VMState = [m \in Machines |-> NilState]
  /\ NodeRef = [m \in Machines |-> NilRef]
  /\ ProviderID \in { f \in [Machines -> GivenProviderIDs] :
                        \A m \in Machines \ Scoped : f[m] = Nil }
  /\ Annotations = [m \in Machines |-> m \in Scoped]
  /\ Quiescent

SpecProvisioned == InitProvisioned /\ [][Next]_vars

\* ------------------------------------ the control plane of one cluster
\* two control-plane machines of one cluster, both in the registry, neither
\* provisioned
InitJoin ==
  /\ role = [m \in Machines |-> ControlPlane]
  /\ registry \in { <<"m1", "m2">>, <<"m2", "m1">> }
  /\ hasCreds = TRUE
  /\ nodePages = << <<>> >>
  /\ vmSize = [m \in Machines |-> "small"]
  /\ nic = [m \in Machines |-> FALSE]
  /\ vm = [m \in Machines |-> AbsentVM]
  /\ ext = [m \in Machines |-> AbsentExt]
  /\ VMID = [m \in Machines |-> Nil]
  /\ VMState = [m \in Machines |-> NilState]
  /\ NodeRef = [m \in Machines |-> NilRef]
  /\ ProviderID = [m \in Machines |-> Nil]
  /\ Annotations = [m \in Machines |-> FALSE]
  /\ Quiescent

\* each machine has its own reconciler; the Creates of different machines
\* interleave call by call, those of one machine follow one another
NextJoin == \E m \in Machines : Create(m)

SpecJoin == InitJoin /\ [][NextJoin]_vars

\* ----------------------------------------------- a Create that is retried
\* the calls of a Create of a machine of role r that failed after its
\* interface call: at the VM call, or (v) after it at the startup script
FailedAfterNic(r, v) ==
  (IF r = Node THEN << <<"MachineList", "ok">>, <<"Token", "ok">> >>
   ELSE << <<"MachineList", "ok">>, <<"VMGet", "notfound">> >>)
  \o << <<"NicCreate", "ok">>, <<"VMCreate", IF v THEN "ok" ELSE "err">> >>

\* the state a first Create of m1 leaves behind when it failed after its
\* interface call succeeded; the peer m2, first in the registry, is not yet
\* provisioned
InitRetry ==
  /\ role \in { r \in [Machines -> {Node, ControlPlane}] : r["m2"] = ControlPlane }
  /\ registry = <<"m2", "m1">>
  /\ hasCreds \in { c \in BOOLEAN : role["m1"] = Node => c }
  /\ nodePages = << <<>> >>
  /\ vmSize = [m \in Machines |-> "small"]
  /\ nic = [m \in Machines |-> m \in Scoped]
  /\ \E v \in BOOLEAN :
       /\ vm = [m \in Machines |->
                  IF m \in Scoped /\ v THEN UpsertVM(AbsentVM, m) ELSE AbsentVM]
       /\ calls = [m \in Machines |->
                     IF m \in Scoped THEN FailedAfterNic(role[m], v) ELSE <<>>]
       /\ result = [m \in Machines |->
                      IF m \notin Scoped THEN NoResult
                      ELSE IF v THEN Err("startup script") ELSE Err("create machine")]
  /\ ext = [m \in Machines |-> AbsentExt]
  /\ VMID = [m \in Machines |-> Nil]
  /\ VMState = [m \in Machines |-> NilState]
  /\ NodeRef = [m \in Machines |-> NilRef]
  /\ ProviderID = [m \in Machines |-> Nil]
  /\ Annotations = [m \in Machines |-> FALSE]
  /\ pc = [m \in Machines |-> "idle"]
  /\ op = [m \in Machines |-> IF m \in Scoped THEN "Create" ELSE "none"]
  /\ isJoin = [m \in Machines |->
                 IF m \notin Scoped THEN "undecided"
                 ELSE IF role[m] = Node THEN "true" ELSE "false"]
  /\ bootstrapToken = [m \in Machines |->
                         IF m \in Scoped /\ role[m] = Node THEN "token" ELSE ""]
  /\ peer = [m \in Machines |->
               IF m \in Scoped /\ role[m] = ControlPlane THEN "m2" ELSE m]
  /\ vmGot = [m \in Machines |-> AbsentVM]
  /\ page = [m \in Machines |-> 0]
  /\ refResult = [m \in Machines |-> "none"]
  /\ idem = [m \in Machines |-> NoIdem]
  /\ ops = 0
  /\ envs = 0
  /\ fails = 0

\* the caller invokes Create again after a Create that returned an error
RetryCreate(m) ==
  /\ pc[m] = "idle"
  /\ op[m] = "Create"
  /\ result[m].err # ""
  /\ pc' = [pc EXCEPT ![m] = "c_list"]
  /\ calls' = [calls EXCEPT ![m] = <<>>]
  /\ result' = [result EXCEPT ![m] = NoResult]
  /\ isJoin' = [isJoin EXCEPT ![m] = "undecided"]
  /\ bootstrapToken' = [bootstrapToken EXCEPT ![m] = ""]
  /\ peer' = [peer EXCEPT ![m] = m]
  /\ idem' = [idem EXCEPT ![m].clean = TRUE]
  /\ UNCHANGED <<envVars, vmSize, cloudVars, scopeVars, op, existsVars, ops, envs, fails>>

\* the calls of a Create that has started
CreateStep(m) ==
  \/ CreateList(m)
  \/ CreatePeerVMGet(m)
  \/ CreatePeerExtGet(m)
  \/ CreateToken(m)
  \/ CreateNIC(m)
  \/ CreateVM(m)
  \/ CreateExt(m)

NextRetry ==
  \/ \E m \in Scoped : RetryCreate(m) \/ CreateStep(m)
  \/ \E p \in Machines : PeerProvision(p)

\* the caller goes on retrying and a started Create goes on to its return
FairRetry == \A m \in Scoped : WF_vars(RetryCreate(m)) /\ WF_vars(CreateStep(m))

SpecRetry == InitRetry /\ [][NextRetry]_vars /\ FairRetry

\* ------------------------------------------------------------------ claims
Done(m, o) == pc[m] = "idle" /\ op[m] = o

\* positions of the calls named c in the log of machine m
Idx(m, c) == { i \in 1..Len(calls[m]) : calls[m][i][1] = c }

Has(m, call) == \E i \in 1..Len(calls[m]) : calls[m][i] = call

Before(m, call, i) == \E j \in 1..(i - 1) : calls[m][j] = call

CreateCalls == {"NicCreate", "VMCreate", "ExtCreate"}

NoCreateCall(m) == \A c \in CreateCalls : Idx(m, c) = {}

Failed(m) == pc[m] = "idle" /\ result[m].err # ""

\* C1: within a Create the interface, VM and extension create calls come in
\* that order, each only after the one before it succeeded, and a failed
\* interface or VM call ends the Create with an error and no later call.
C1_CreateOrder ==
  \A m \in Machines : op[m] = "Create" =>
    /\ \A c \in CreateCalls : Cardinality(Idx(m, c)) <= 1
    /\ \A i \in Idx(m, "VMCreate") : Before(m, <<"NicCreate", "ok">>, i)
    /\ \A i \in Idx(m, "ExtCreate") :
         /\ Before(m, <<"VMCreate", "ok">>, i)
         /\ Before(m, <<"NicCreate", "ok">>, i)
    /\ \A i \in 1..Len(calls[m]) :
         calls[m][i] \in { <<"NicCreate", "err">>, <<"VMCreate", "err">> } =>
           i = Len(calls[m]) /\ Failed(m)

C1_Witness ==
  \E m \in Machines :
    /\ Done(m, "Create")
    /\ result[m].err = ""
    /\ Has(m, <<"NicCreate", "ok">>) /\ Has(m, <<"VMCreate", "ok">>)
    /\ Has(m, <<"ExtCreate", "ok">>)

\* C2: within a Delete the VM Delete call comes before the interface Delete
\* call, and a failed VM Delete ends the Delete with an error and no
\* interface Delete call.
C2_DeleteOrder ==
  \A m \in Machines : op[m] = "Delete" =>
    /\ \A i \in Idx(m, "NicDelete") : Before(m, <<"VMDelete", "ok">>, i)
    /\ Has(m, <<"VMDelete", "err">>) => Failed(m) /\ Idx(m, "NicDelete") = {}

C2_Witness ==
  \E m \in Machines :
    /\ Done(m, "Delete")
    /\ calls[m] = << <<"VMDelete", "ok">>, <<"NicDelete", "ok">> >>

\* what C3 says of the startup script: a Create whose join decision is false
\* holds an empty token and, once its extension call succeeded, has left an
\* extension rendered with the empty token
EmptyTokenWhenNoJoin(m) ==
  isJoin[m] = "false" =>
    /\ bootstrapToken[m] = ""
    /\ Has(m, <<"ExtCreate", "ok">>) => ext[m] = [exists |-> TRUE, token |-> ""]

\* C3 as stated: a Create requests a token if and only if the join decision
\* is true, at most once, and renders the script with an empty token when it
\* is false.
C3_Original ==
  \A m \in Machines : op[m] = "Create" =>
    /\ Cardinality(Idx(m, "Token")) <= 1
    /\ Done(m, "Create") => (Idx(m, "Token") # {} <=> isJoin[m] = "true")
    /\ EmptyTokenWhenNoJoin(m)

\* C3 amended: a Create requests a token if and only if the join decision is
\* true and the scope holds the cluster credentials (without them it returns
\* an error with no token request), at most once, and renders the script with
\* an empty token when the decision is false.
C3_TokenIffJoinAndCreds ==
  \A m \in Machines : op[m] = "Create" =>
    /\ Cardinality(Idx(m, "Token")) <= 1
    /\ Idx(m, "Token") # {} => isJoin[m] = "true" /\ hasCreds
    /\ Done(m, "Create") =>
         /\ (Idx(m, "Token") # {} <=> (isJoin[m] = "true" /\ hasCreds))
         /\ (isJoin[m] = "true" /\ ~hasCreds => Failed(m) /\ NoCreateCall(m))
    /\ EmptyTokenWhenNoJoin(m)

C3_Witness ==
  \E m \in Machines :
    /\ Done(m, "Create")
    /\ isJoin[m] = "true"
    /\ Has(m, <<"Token", "ok">>)
    /\ ext[m] = [exists |-> TRUE, token |-> "token"]

\* C4: in a Create of a joining machine the token request comes before every
\* create call, and without credentials or with a failed token request the
\* Create returns an error and issues no create call.
C4_TokenFirst ==
  \A m \in Machines : op[m] = "Create" /\ isJoin[m] = "true" =>
    /\ \A c \in CreateCalls : \A i \in Idx(m, c) : Before(m, <<"Token", "ok">>, i)
    /\ ~hasCreds => Failed(m) /\ NoCreateCall(m)
    /\ Has(m, <<"Token", "err">>) => Failed(m) /\ NoCreateCall(m)

C4_Witness ==
  \E m \in Machines :
    /\ Done(m, "Create")
    /\ isJoin[m] = "true"
    /\ Has(m, <<"Token", "err">>)
    /\ result[m].err = "bootstrap token"

C4_WitnessCreated ==
  \E m \in Machines :
    /\ Done(m, "Create") /\ isJoin[m] = "true" /\ role[m] = ControlPlane
    /\ calls[m][Len(calls[m])] = <<"ExtCreate", "ok">>

\* the step of machine m that makes the call at position pos and leaves it
Leaves(m, pos) == pc[m] = pos /\ pc'[m] # pos

LastCall(m) == calls'[m][Len(calls'[m])]

\* C5: Update makes one call, the VM Get; it returns the forbidden-mutation
\* error when the sizes differ, an error when the Get fails or finds nothing,
\* success when the sizes are equal, and changes neither provider state nor
\* scope status.
C5_UpdateReadOnly ==
  [][\A m \in Machines : Leaves(m, "u_get") =>
        /\ pc'[m] = "idle"
        /\ Len(calls'[m]) = 1
        /\ LastCall(m)[1] = "VMGet"
        /\ UNCHANGED <<cloudVars, scopeVars>>
        /\ LastCall(m)[2] # "ok" => result'[m].err = "get vm"
        /\ ~vm[m].exists => LastCall(m)[2] # "ok" /\ result'[m].err = "get vm"
        /\ LastCall(m)[2] = "ok" /\ vmSize[m] # vm[m].VMSize =>
             result'[m].err = "immutable state"
        /\ LastCall(m)[2] = "ok" /\ vmSize[m] = vm[m].VMSize => result'[m] = Ok
    ]_vars

C5_Witness ==
  \E m \in Machines :
    /\ Done(m, "Update")
    /\ calls[m] = << <<"VMGet", "ok">> >>
    /\ result[m].err = "immutable state"

\* C6: Exists answers (false, nil) when the VM Get finds nothing, when VM and
\* extension are found but the provisioning state is neither Succeeded nor
\* Updating, and when the extension Get finds nothing; in the not-found cases
\* it neither backfills the provider id nor resolves the node.
C6_ExistsNotReady ==
  [][\A m \in Machines :
        /\ Leaves(m, "e_vmget") \/ Leaves(m, "e_extget") =>
             (LastCall(m)[2] = "notfound" =>
                /\ pc'[m] = "idle"
                /\ result'[m] = Ready(FALSE)
                /\ refResult'[m] = "none"
                /\ UNCHANGED <<ProviderID, NodeRef>>)
        /\ Leaves(m, "e_vmget") /\ ~vm[m].exists /\ LastCall(m)[2] # "err" =>
             LastCall(m) = <<"VMGet", "notfound">>
        /\ Leaves(m, "e_extget") /\ ~ext[m].exists /\ LastCall(m)[2] # "err" =>
             LastCall(m) = <<"ExtGet", "notfound">>
        /\ Leaves(m, "e_extget") /\ LastCall(m) = <<"ExtGet", "ok">>
             /\ vmGot[m].ProvisioningState \notin {VMStateSucceeded, VMStateUpdating} =>
               /\ pc'[m] = "idle"
               /\ result'[m] = Ready(FALSE)
               /\ refResult'[m] = "none"
    ]_vars

C6_Witness ==
  \E m \in Machines :
    /\ Done(m, "Exists")
    /\ calls[m] = << <<"VMGet", "ok">>, <<"ExtGet", "ok">> >>
    /\ vmGot[m].ProvisioningState \in {"Creating", "Failed", "Deleting"}
    /\ result[m] = Ready(FALSE)

C6_WitnessNoExtension ==
  \E m \in Machines :
    /\ Done(m, "Exists")
    /\ calls[m] = << <<"VMGet", "ok">>, <<"ExtGet", "notfound">> >>
    /\ vmGot[m].ProvisioningState = VMStateSucceeded
    /\ result[m] = Ready(FALSE)

\* C7: with the VM found in state Succeeded or Updating and the extension
\* found, Exists answers (true, nil) however the node resolution ends; Exists
\* returns an error only when the VM Get or the extension Get failed with an
\* error other than not-found.
C7_ExistsReady ==
  \A m \in Machines : Done(m, "Exists") =>
    /\ ( /\ Has(m, <<"VMGet", "ok">>) /\ Has(m, <<"ExtGet", "ok">>)
         /\ vmGot[m].ProvisioningState \in {VMStateSucceeded, VMStateUpdating} )
       => result[m] = Ready(TRUE)
    /\ result[m].err # "" =>
         calls[m][Len(calls[m])] \in { <<"VMGet", "err">>, <<"ExtGet", "err">> }
    /\ calls[m][Len(calls[m])] \in { <<"VMGet", "err">>, <<"ExtGet", "err">> } =>
         result[m].err # ""

C7_Witness ==
  \E m \in Machines :
    /\ Done(m, "Exists")
    /\ refResult[m] \in {"no kubeconfig", "corev1 client", "query nodes", "no node found"}
    /\ result[m] = Ready(TRUE)

C7_WitnessQueryError ==
  \E m \in Machines :
    /\ Done(m, "Exists") /\ refResult[m] = "query nodes" /\ result[m] = Ready(TRUE)

C7_WitnessNoNode ==
  \E m \in Machines :
    /\ Done(m, "Exists") /\ refResult[m] = "no node found" /\ result[m] = Ready(TRUE)

UnknownRole(m) == role[m] \notin {Node, ControlPlane}

\* C8 as stated: for a machine of unknown role Create, Update and the join
\* decision fail with a configuration error and make no external call.
C8_Original ==
  \A m \in Machines : UnknownRole(m) /\ (Done(m, "Create") \/ Done(m, "Update")) =>
    /\ result[m].err = "unknown set"
    /\ calls[m] = <<>>

\* C8 amended: for a machine of unknown role Create and its join decision
\* fail after one external call, the machine-registry list (with the
\* configuration error when the list succeeded, with the list's error
\* otherwise), and make no VM or extension Get, token request or create call;
\* Update does not read the role and makes its VM Get as for any machine.
C8_UnknownRole ==
  \A m \in Machines : UnknownRole(m) =>
    /\ op[m] = "Create" /\ pc[m] # "c_list" =>
         /\ Failed(m)
         /\ isJoin[m] = "error"
         /\ calls[m] \in { << <<"MachineList", "ok">> >>, << <<"MachineList", "err">> >> }
         /\ calls[m] = << <<"MachineList", "ok">> >> <=> result[m].err = "unknown set"
         /\ calls[m] = << <<"MachineList", "err">> >> <=> result[m].err = "list machines"
    /\ Done(m, "Update") =>
         /\ Len(calls[m]) = 1 /\ calls[m][1][1] = "VMGet"
         /\ result[m].err \in {"", "get vm", "immutable state"}

C8_Witness ==
  \E m \in Machines :
    /\ UnknownRole(m)
    /\ Done(m, "Create")
    /\ result[m].err = "unknown set"

C8_WitnessUpdate ==
  \E m \in Machines :
    /\ UnknownRole(m) /\ Done(m, "Update") /\ result[m].err = "get vm"

\* C9: two Creates of one machine in a row, every call of both succeeding and
\* nothing else changing the provider state, leave the same interface, VM and
\* extension (the extension rendered with the same decision) as the first
\* alone.
C9_CreateIdempotent ==
  \A m \in Machines : idem[m].n = 2 => idem[m].second = idem[m].first

C9_IdempotentForNode ==
  \A m \in Machines : idem[m].n = 2 /\ role[m] = Node => idem[m].second = idem[m].first

C9_NodeTwice == \E m \in Machines : idem[m].n = 2 /\ role[m] = Node

\* the registry lists no control-plane machine but m
NoOtherControlPlane(m) ==
  \A i \in 1..Len(registry) : registry[i] # m => ~IsControlPlaneMachine(registry[i])

\* C10: the join decision of a ControlPlane machine is never join = true when
\* the registry lists no control-plane machine other than itself (stated for
\* the decisions none of whose lookups failed).
C10_FirstControlPlaneInitializes ==
  \A m \in Machines :
    /\ op[m] = "Create" /\ role[m] = ControlPlane /\ NoOtherControlPlane(m)
    /\ \A i \in 1..Len(calls[m]) : calls[m][i][2] # "err"
    => isJoin[m] # "true"

\* the control-plane machines of the registry, by position
ControlPlaneAt == { i \in 1..Len(registry) : role[registry[i]] = ControlPlane }

PeerLookups(m) == Idx(m, "VMGet") \cup Idx(m, "ExtGet")

\* C11: the join decision of a ControlPlane machine probes the first
\* control-plane machine of the registry and no other, with at most one VM
\* Get and one extension Get: join = false when its VM is not found or its
\* extension is not found, join = true when both are found.
C11_FirstPeerDecides ==
  \A m \in Machines : op[m] = "Create" /\ role[m] = ControlPlane =>
    /\ Cardinality(Idx(m, "VMGet")) <= 1
    /\ Cardinality(Idx(m, "ExtGet")) <= 1
    /\ PeerLookups(m) # {} =>
         \E i \in ControlPlaneAt :
           /\ \A j \in ControlPlaneAt : i <= j
           /\ peer[m] = registry[i]
    /\ Has(m, <<"VMGet", "notfound">>) => isJoin[m] = "false" /\ Idx(m, "ExtGet") = {}
    /\ Has(m, <<"ExtGet", "notfound">>) => isJoin[m] = "false" /\ Has(m, <<"VMGet", "ok">>)
    /\ Has(m, <<"ExtGet", "ok">>) => isJoin[m] = "true" /\ Has(m, <<"VMGet", "ok">>)
    /\ ControlPlaneAt = {} /\ Has(m, <<"MachineList", "ok">>) =>
         isJoin[m] = "false" /\ PeerLookups(m) = {}

C11_Witness ==
  \E m \in Machines :
    /\ op[m] = "Create" /\ role[m] = ControlPlane
    /\ Cardinality(ControlPlaneAt) = 2
    /\ Has(m, <<"VMGet", "ok">>) /\ Has(m, <<"ExtGet", "ok">>)
    /\ isJoin[m] = "true"

C11_WitnessNoExtension ==
  \E m \in Machines :
    /\ op[m] = "Create" /\ role[m] = ControlPlane
    /\ Has(m, <<"VMGet", "ok">>) /\ Has(m, <<"ExtGet", "notfound">>)
    /\ isJoin[m] = "false"

\* the join decision of m's Create has been taken
Decided(m) == op[m] = "Create" /\ pc[m] # "c_list"

\* C12 as stated: the join decision of a Node machine is join = true, with no
\* VM Get and no extension Get, whatever the registry holds and whether or not
\* it can be listed.
C12_Original ==
  \A m \in Machines : Decided(m) /\ role[m] = Node =>
    isJoin[m] = "true" /\ PeerLookups(m) = {}

\* C12 amended: the join decision of a Node machine makes no VM Get and no
\* extension Get whatever the registry holds, and is join = true whenever the
\* machine-registry list succeeded; when the list fails the decision returns
\* the list's error.
C12_NodeJoins ==
  \A m \in Machines : Decided(m) /\ role[m] = Node =>
    /\ PeerLookups(m) = {}
    /\ Has(m, <<"MachineList", "ok">>) => isJoin[m] = "true"
    /\ Has(m, <<"MachineList", "err">>) =>
         isJoin[m] = "error" /\ Failed(m) /\ result[m].err = "list machines"

C12_Witness ==
  \E m \in Machines :
    /\ Decided(m) /\ role[m] = Node
    /\ ControlPlaneAt # {}
    /\ isJoin[m] = "true"

\* the nodes of page p of the inventory whose provider id contains id
MatchesOn(p, id) ==
  { i \in 1..Len(nodePages[p]) : Contains(nodePages[p][i].ProviderID, id) }

\* the pages asked for in this invocation
PagesAsked(m) == Cardinality(Idx(m, "NodeList"))

\* C13: node resolution asks for the pages in order; it returns the first
\* matching node in page order after asking for exactly the pages up to the
\* one that holds it, and with no match on any page it asks for every page
\* and returns not-found, never a node that does not match.
C13_Pagination ==
  \A m \in Machines : op[m] = "Exists" =>
    /\ pc[m] = "e_nodes" =>
         /\ page[m] = PagesAsked(m) + 1
         /\ page[m] <= Len(nodePages)
         /\ \A q \in 1..(page[m] - 1) : MatchesOn(q, VMID[m]) = {}
    /\ refResult[m] = "found" =>
         /\ pc[m] = "idle"
         /\ PagesAsked(m) = page[m]
         /\ \A q \in 1..(page[m] - 1) : MatchesOn(q, VMID[m]) = {}
         /\ \E i \in MatchesOn(page[m], VMID[m]) :
              /\ \A j \in MatchesOn(page[m], VMID[m]) : i <= j
              /\ NodeRef[m] = nodePages[page[m]][i].Name
    /\ refResult[m] = "no node found" =>
         /\ pc[m] = "idle"
         /\ PagesAsked(m) = Len(nodePages)
         /\ \A q \in 1..Len(nodePages) : MatchesOn(q, VMID[m]) = {}
         /\ NodeRef[m] = NilRef
    /\ NodeRef[m] # NilRef => refResult[m] \in {"found", "none"}

C13_Witness ==
  \E m \in Machines :
    /\ Done(m, "Exists")
    /\ refResult[m] = "found"
    /\ Len(nodePages) = MaxPages
    /\ page[m] = Len(nodePages)
    /\ Len(nodePages[page[m]]) = 2

C13_WitnessNoMatch ==
  \E m \in Machines :
    /\ Done(m, "Exists")
    /\ refResult[m] = "no node found"
    /\ PagesAsked(m) = MaxPages

\* C17: in the join decision of a ControlPlane machine a failure of the
\* peer's extension Get that is not a not-found ends the decision with an
\* error, as a failure of the peer's VM Get does: the decision is never true
\* and no token is requested after a peer lookup that failed.
C17_PeerExtErrorReturned ==
  \A m \in Machines :
    op[m] = "Create" /\ Has(m, <<"ExtGet", "err">>) =>
      /\ isJoin[m] = "error"
      /\ Failed(m)
      /\ Idx(m, "Token") = {}

\* C18: a Create whose extension call failed still sets the annotation and
\* returns success; the annotation is changed only by the step of a Create
\* that returns success, never by a Create that returns an error.
C18_ExtensionErrorSwallowed ==
  [][ \A m \in Machines :
        /\ (op'[m] = "Create" /\ Len(calls'[m]) > Len(calls[m])
              /\ LastCall(m) = <<"ExtCreate", "err">>) =>
             /\ pc'[m] = "idle"
             /\ result'[m] = Ok
             /\ Annotations'[m] = TRUE
        /\ (op'[m] = "Create" /\ pc[m] # "idle" /\ pc'[m] = "idle"
              /\ result'[m].err # "") =>
             Annotations'[m] = Annotations[m]
        /\ Annotations'[m] # Annotations[m] =>
             /\ op[m] = "Create" /\ pc[m] = "c_ext" /\ pc'[m] = "idle"
             /\ result'[m] = Ok ]_vars

C18_Witness ==
  \E m \in Machines :
    /\ Done(m, "Create")
    /\ Has(m, <<"ExtCreate", "err">>)
    /\ result[m] = Ok
    /\ Annotations[m] = TRUE
    /\ ~ext[m].exists

\* a Create that returned an error after its interface and VM calls succeeded
C18_WitnessError ==
  \E m \in Machines :
    /\ Done(m, "Create")
    /\ result[m].err = "startup script"
    /\ Has(m, <<"VMCreate", "ok">>)
    /\ Annotations[m] = FALSE

\* C14: node resolution given an empty VM identifier (nil or the empty
\* string), or a scope without cluster credentials, ends with a precondition
\* error, returns no node and never lists the node inventory.  (An error of
\* the client construction is counted as such an error too.)
C14_EmptyIdentifierRejected ==
  \A m \in Machines :
    op[m] = "getNodeReference" /\ (VMID[m] \in {Nil, <<>>} \/ ~hasCreds) =>
      /\ pc[m] = "idle"
      /\ refResult[m] \in {"no instance id", "no kubeconfig", "corev1 client"}
      /\ result[m].err # ""
      /\ Idx(m, "NodeList") = {}
      /\ NodeRef[m] = NilRef

\* C15 as stated: each of VMID, VMState and NodeRef, once it holds a value,
\* is only ever written with that same value.
C15_Original ==
  [][ \A m \in Machines :
        /\ VMID[m] # Nil => VMID'[m] = VMID[m]
        /\ VMState[m] # NilState => VMState'[m] = VMState[m]
        /\ NodeRef[m] # NilRef => NodeRef'[m] = NodeRef[m] ]_vars

\* C15: VMID and NodeRef, once they hold a value, are only ever written with
\* that same value; VMState is written by every Exists whose VM and extension
\* Gets both succeed, with the provisioning state that VM Get returned.
C15_SetOnceButVMState ==
  [][ \A m \in Machines :
        /\ VMID[m] # Nil => VMID'[m] = VMID[m]
        /\ NodeRef[m] # NilRef => NodeRef'[m] = NodeRef[m]
        /\ (op[m] = "Exists" /\ Len(calls'[m]) > Len(calls[m])
              /\ LastCall(m) = <<"ExtGet", "ok">>) =>
             /\ VMState'[m] = vmGot[m].ProvisioningState
             /\ VMID'[m] = vmGot[m].ID
        /\ VMState'[m] # VMState[m] =>
             /\ op[m] = "Exists" /\ pc[m] = "e_extget"
             /\ LastCall(m) = <<"ExtGet", "ok">> ]_vars

\* a later Exists than the one that resolved the node has written the status
\* again, after the provider moved the VM to another state
C15_Witness ==
  \E m \in Machines :
    /\ Done(m, "Exists")
    /\ NodeRef[m] # NilRef
    /\ Has(m, <<"ExtGet", "ok">>) /\ Idx(m, "NodeList") = {}
    /\ VMID[m] = IdOf(m)
    /\ VMState[m] = VMStateUpdating
    /\ envs = 1

\* C16: once the node reference is non-nil it is never changed and no node
\* listing is made again; once the provider id is non-empty it is never
\* changed, and a provider id is only ever set by an Exists to "azure:////"
\* followed by the VM identifier that this Exists recorded.
C16_NodeRefAndProviderIDOnce ==
  [][ \A m \in Machines :
        /\ NodeRef[m] # NilRef =>
             /\ NodeRef'[m] = NodeRef[m]
             /\ pc[m] # "e_nodes" /\ pc'[m] # "e_nodes"
             /\ Len(calls'[m]) > Len(calls[m]) => LastCall(m)[1] # "NodeList"
        /\ ProviderID[m] \notin {Nil, <<>>} => ProviderID'[m] = ProviderID[m]
        /\ ProviderID'[m] # ProviderID[m] =>
             /\ op[m] = "Exists" /\ pc[m] = "e_extget"
             /\ VMID'[m] = vmGot[m].ID
             /\ ProviderID'[m] = <<"azure:////">> \o VMID'[m] ]_vars

\* an Exists that found the node reference set and went without a listing,
\* the provider id being the one backfilled earlier
C16_Witness ==
  \E m \in Machines :
    /\ Done(m, "Exists")
    /\ ops = 2
    /\ result[m] = Ready(TRUE)
    /\ NodeRef[m] # NilRef
    /\ calls[m] = << <<"VMGet", "ok">>, <<"ExtGet", "ok">> >>
    /\ ProviderID[m] = <<"azure:////">> \o IdOf(m)

\* an Exists on a machine whose provider id was given left it as it was
C16_WitnessGiven ==
  \E m \in Machines :
    /\ Done(m, "Exists")
    /\ result[m] = Ready(TRUE)
    /\ ProviderID[m] = <<"azure:///", "given">>

\* the control-plane machines whose startup extension was created with the
\* initialize decision: an empty bootstrap token
Initialized == { m \in Machines : role[m] = ControlPlane /\ ext[m].exists /\ ext[m].token = "" }

\* C20: however the Creates of the distinct control-plane machines of one
\* cluster interleave and are retried, at most one control-plane machine has
\* its startup extension created with the initialize decision.
C20_OneInitializer == Cardinality(Initialized) <= 1

\* every client the Create called answered without an error
ClientsSucceeded(m) ==
  /\ \A i \in 1..Len(calls[m]) : calls[m][i][2] # "err"
  /\ result[m].err # "startup script"

\* the interface, VM and extension calls were made in that order and all
\* three resources are there
AllThreeInOrder(m) ==
  /\ nic[m] /\ vm[m].exists /\ ext[m].exists
  /\ \E i, j, k \in 1..Len(calls[m]) :
       /\ i < j /\ j < k
       /\ calls[m][i] = <<"NicCreate", "ok">>
       /\ calls[m][j] = <<"VMCreate", "ok">>
       /\ calls[m][k] = <<"ExtCreate", "ok">>

\* a Create makes no delete call and takes no resource away
NoRollback ==
  [][ \A m \in Machines :
        op'[m] = "Create" =>
          /\ \A i \in 1..Len(calls'[m]) :
               calls'[m][i][1] \in {"MachineList", "VMGet", "ExtGet", "Token",
                                    "NicCreate", "VMCreate", "ExtCreate"}
          /\ m \in Scoped =>
               /\ nic[m] => nic'[m]
               /\ vm[m].exists => vm'[m].exists
               /\ ext[m].exists => ext'[m].exists ]_vars

\* C19 as stated, in its finite form: a retried Create whose clients all
\* succeed returns success after the interface, VM and extension calls, in
\* order, with all three resources present.
C19_Original ==
  \A m \in Scoped :
    Done(m, "Create") /\ ClientsSucceeded(m) => result[m] = Ok /\ AllThreeInOrder(m)

\* C19: a Create makes no delete call and leaves the interface of a failed
\* Create in place; a retried Create whose clients all succeed, on a scope
\* that holds cluster credentials or for a decision not to join, returns
\* success after the three create calls in order with all three resources
\* present, and a Create that returns success has left the interface and
\* the VM; when the scope holds credentials, the caller goes on retrying and
\* the clients stop failing, some Create returns success.
C19_RetryConverges ==
  /\ NoRollback
  /\ [](\A m \in Scoped :
          /\ nic[m]
          /\ (Done(m, "Create") /\ ClientsSucceeded(m) /\ (isJoin[m] = "true" => hasCreds)) =>
               result[m] = Ok /\ AllThreeInOrder(m)
          /\ (Done(m, "Create") /\ result[m] = Ok) => nic[m] /\ vm[m].exists)
  /\ \A m \in Scoped : (Failed(m) /\ hasCreds) ~> (Done(m, "Create") /\ result[m] = Ok)

\* a retried Create returned success after an earlier retry failed
C19_Witness ==
  \E m \in Scoped :
    /\ Done(m, "Create")
    /\ result[m] = Ok
    /\ ClientsSucceeded(m)
    /\ AllThreeInOrder(m)
    /\ fails = MaxFail

\* a retried Create joins a peer provisioned meanwhile and has no credentials
C19_WitnessNoCredentials ==
  \E m \in Scoped :
    /\ Done(m, "Create")
    /\ ClientsSucceeded(m)
    /\ isJoin[m] = "true" /\ ~hasCreds
    /\ result[m].err = "no kubeconfig"
    /\ nic[m]
====
